---- MODULE Spec2Model ----
(***************************************************************************)
(* Model of dbus-shelly-1pm-3Phase-pvinverter.py: a Shelly 1PM / Plus 1PM  *)
(* meter polled over HTTP and republished as a three-phase PV inverter on  *)
(* the Venus OS D-Bus.                                                     *)
(*                                                                         *)
(* Numbers are exact rationals <<n, d>> in lowest terms with d > 0; the    *)
(* unset value None is <<0, 0>>.  Python's binary floating point rounding  *)
(* is not modelled: a division is the exact quotient.                      *)
(***************************************************************************)
EXTENDS Integers, Sequences, FiniteSets, TLC

VARIABLES
  variant,       \* "A" = DbusShelly1PMService, "B" = DbusShelly1PlusPMService (config ShellyPlus)
  phaseCfg,      \* config DEFAULT/Phase
  accessType,    \* config DEFAULT/AccessType
  username,      \* config ONPREMISE/Username
  password,      \* config ONPREMISE/Password
  base_url,      \* self._base_url
  service,       \* whether VeDbusService(...) has been created
  exc,           \* the exception that ended construction, "none" if none did
  logged,        \* whether main() has logged that exception
  dbus,          \* self._dbusservice: path -> value
  lastUpdate,    \* self._lastUpdate
  timers,        \* callbacks registered with gobject.timeout_add
  pc,            \* position of the main-loop thread
  phase,         \* loop index of "for phase in ('L1', 'L2', 'L3')"
  meter_data,    \* local of _getShellyData
  total_power,   \* local of _getShellyData
  total_energy,  \* local of _getShellyData
  reading,       \* locals power, energy, voltage, current of the loop body
  old,           \* history: dbus and lastUpdate when the running cycle started
  successes,     \* history: number of update cycles completed without exception
  lastOutcome,   \* history: how the last completed update cycle ended
  lifeLog,       \* what the last sign-of-life report logged
  inbound        \* number of inbound bus writes handled so far

vars == <<variant, phaseCfg, accessType, username, password, base_url, service, exc,
          logged, dbus, lastUpdate, timers, pc, phase, meter_data,
          total_power, total_energy, reading, old, successes, lastOutcome, lifeLog,
          inbound>>

(***************************************************************************)
(* Bounds of the model                                                     *)
(***************************************************************************)
MaxCycles == 1      \* successful cycles explored by Spec
MaxRuns == 2        \* successful cycles explored by SpecCycles
WrapCycles == 257   \* successful cycles explored by SpecWrap
MaxTime == 2        \* time.time() returns a value in 1..MaxTime
MaxInbound == 1     \* inbound bus writes explored by Spec

(***************************************************************************)
(* Program constants                                                       *)
(***************************************************************************)
IndexModulus == 256
NominalVoltage == 230
WattPerKilowatt == 1000
MinutesPerHour == 60
Input == 0

(***************************************************************************)
(* Exact rational arithmetic                                               *)
(***************************************************************************)
Abs(n) == IF n < 0 THEN -n ELSE n

RECURSIVE GCD(_, _)
GCD(a, b) == IF b = 0 THEN a ELSE GCD(b, a % b)

Norm(n, d) == LET g == GCD(Abs(n), d) IN <<n \div g, d \div g>>

Num(i) == <<i, 1>>

None == <<0, 0>>

\* Python's "x / k" for a positive integer k
TrueDiv(q, k) == Norm(q[1], q[2] * k)

RAdd(a, b) == Norm(a[1] * b[2] + b[1] * a[2], a[2] * b[2])

\* an unset value counts as zero
OrZero(q) == IF q = None THEN Num(0) ELSE q

(***************************************************************************)
(* The published path tree                                                 *)
(***************************************************************************)
Phases == <<"L1", "L2", "L3">>

PhaseNames == {"L1", "L2", "L3"}

VoltagePath == [L1 |-> "/Ac/L1/Voltage", L2 |-> "/Ac/L2/Voltage", L3 |-> "/Ac/L3/Voltage"]

CurrentPath == [L1 |-> "/Ac/L1/Current", L2 |-> "/Ac/L2/Current", L3 |-> "/Ac/L3/Current"]

PowerPath == [L1 |-> "/Ac/L1/Power", L2 |-> "/Ac/L2/Power", L3 |-> "/Ac/L3/Power"]

EnergyPath ==
  [L1 |-> "/Ac/L1/Energy/Forward", L2 |-> "/Ac/L2/Energy/Forward",
   L3 |-> "/Ac/L3/Energy/Forward"]

\* the paths an update cycle writes
MeasurementPaths ==
  {"/Ac/Power", "/Ac/Energy/Forward"}
    \cup {VoltagePath[p] : p \in PhaseNames} \cup {CurrentPath[p] : p \in PhaseNames}
    \cup {PowerPath[p] : p \in PhaseNames} \cup {EnergyPath[p] : p \in PhaseNames}

\* the paths main() hands to the service: registered writeable
WriteablePaths == MeasurementPaths \cup {"/Ac/Current", "/Ac/Voltage"}

MandatoryPaths == {"/Connected", "/Serial", "/UpdateIndex", "/StatusCode"}

\* the "mac" the device reports
DeviceMac == "A4CF12D3"

Paths == WriteablePaths \cup MandatoryPaths

InitialValue(path) ==
  CASE path = "/UpdateIndex" -> 0
    [] path = "/Connected" -> 1
    [] path = "/Serial" -> DeviceMac
    [] path = "/StatusCode" -> 0
    [] path \in {"/Ac/Energy/Forward"} \cup {EnergyPath[p] : p \in PhaseNames} -> None
    [] OTHER -> Num(0)

(***************************************************************************)
(* What the device may answer to one GET                                   *)
(***************************************************************************)
NoBody == <<>>

\* decoded bodies of GET /status (Variant A)
BodiesA ==
  { [meters |-> <<[power |-> 460, total |-> 6000]>>],
    [meters |-> <<[power |-> -230, total |-> 7000]>>],
    [meters |-> <<[power |-> 0, total |-> 0]>>],
    [meters |-> <<[power |-> 460]>>],
    [meters |-> <<[total |-> 6000]>>],
    [meters |-> <<>>],
    [mac |-> 1],
    NoBody }

\* decoded bodies of GET /rpc/Switch.GetStatus?id=0 (Variant B)
BodiesB ==
  { [apower |-> 460, aenergy |-> [total |-> 1000], voltage |-> 230, current |-> 2],
    [apower |-> -115, aenergy |-> [total |-> 2500], voltage |-> 231, current |-> -1],
    [apower |-> 460, aenergy |-> [total |-> 1000], voltage |-> 230],
    [apower |-> 460, aenergy |-> [by_minute |-> 0], voltage |-> 230, current |-> 2],
    [aenergy |-> [total |-> 1000], voltage |-> 230, current |-> 2],
    NoBody }

Responses(v) ==
  {[kind |-> "none", data |-> NoBody], [kind |-> "badjson", data |-> NoBody]}
    \cup {[kind |-> "json", data |-> b] : b \in (IF v = "A" THEN BodiesA ELSE BodiesB)}

\* _getShellyJson raises: no response, json() fails, or the decoded body is empty
GetShellyJsonRaises(resp) ==
  \/ resp.kind = "none"
  \/ resp.kind = "badjson"
  \/ DOMAIN resp.data = {}

(***************************************************************************)
(* _getShellyData: the body of the loop over the three phases              *)
(***************************************************************************)
\* the subscript expressions of the loop body raise KeyError / IndexError
ReadRaisesA(md) ==
  \/ "meters" \notin DOMAIN md
  \/ Len(md.meters) <= Input
  \/ "power" \notin DOMAIN md.meters[Input + 1]
  \/ "total" \notin DOMAIN md.meters[Input + 1]

ReadRaisesB(md) ==
  \/ "apower" \notin DOMAIN md
  \/ "aenergy" \notin DOMAIN md
  \/ "total" \notin DOMAIN md.aenergy
  \/ "voltage" \notin DOMAIN md
  \/ "current" \notin DOMAIN md

\* iteration i of the loop raises while it reads meter_data
ReadRaises(v, i, md) ==
  IF v = "A" THEN ReadRaisesA(md) ELSE ReadRaisesB(md)

\* the condition of the "if" in the loop body: Variant A compares phase with
\* itself, Variant B compares active_phase with itself
TakesReading(v, ph, pvinverter_phase) ==
  IF v = "A"
    THEN ph = ph
    ELSE LET active_phase == (ph = pvinverter_phase) IN active_phase = active_phase

ZeroReading == [power |-> 0, energy |-> 0, voltage |-> Num(0), current |-> Num(0)]

\* Variant A's current taken to be the power itself
PhaseReadingNoDivision(v, ph, pvinverter_phase, md) ==
  IF TakesReading(v, ph, pvinverter_phase)
    THEN IF v = "A"
      THEN LET m == md.meters[Input + 1] IN
           [power |-> m.power, energy |-> m.total,
            voltage |-> Num(NominalVoltage),
            current |-> Num(m.power)]
      ELSE [power |-> md.apower, energy |-> md.aenergy.total,
            voltage |-> Num(md.voltage), current |-> Num(md.current)]
    ELSE ZeroReading

\* power, energy, voltage, current of one iteration
PhaseReading(v, ph, pvinverter_phase, md) ==
  IF TakesReading(v, ph, pvinverter_phase)
    THEN IF v = "A"
      THEN LET m == md.meters[Input + 1] IN
           [power |-> m.power, energy |-> m.total,
            voltage |-> Num(NominalVoltage),
            current |-> TrueDiv(Num(m.power), NominalVoltage)]
      ELSE [power |-> md.apower, energy |-> md.aenergy.total,
            voltage |-> Num(md.voltage), current |-> Num(md.current)]
    ELSE ZeroReading

\* a factor taken from the other variant
EnergyForwardSwapped(v, energy) ==
  IF v = "A"
    THEN TrueDiv(Num(energy), WattPerKilowatt)
    ELSE TrueDiv(TrueDiv(Num(energy), WattPerKilowatt), MinutesPerHour)

\* the value written to an Energy/Forward path: Variant A counts watt-minutes,
\* Variant B watt-hours
EnergyForward(v, energy) ==
  IF v = "A"
    THEN TrueDiv(TrueDiv(Num(energy), WattPerKilowatt), MinutesPerHour)
    ELSE TrueDiv(Num(energy), WattPerKilowatt)

\* "=" written for "+="
AccumulateAssign(total, x) == x

\* total_power += power, total_energy += energy
Accumulate(total, x) == total + x

(***************************************************************************)
(* _update                                                                 *)
(***************************************************************************)
\* an index that does not wrap
NextUpdateIndexNoWrap(i) == i + 1

NextUpdateIndex(i) == (i + 1) % IndexModulus

\* "return True" written inside the try block
UpdateReturnsInTry(raised) == ~raised

\* what _update returns; GLib drops a timeout whose callback does not return True
UpdateReturns(raised) == TRUE

\* an error handler that publishes zero power
ExceptZeroesPower(d) == [d EXCEPT !["/Ac/Power"] = Num(0)]

\* an error handler that flags the device as disconnected
ExceptDisconnects(d) == [d EXCEPT !["/Connected"] = 0]

\* what the "except" clause leaves of the published values: it only logs
ExceptHandler(d) == d

(***************************************************************************)
(* The GLib main loop and the bus                                          *)
(***************************************************************************)
\* a dispatcher that runs callbacks on threads of their own
MainLoopThreaded == TRUE

\* mainloop.run() dispatches one callback at a time, to completion
MainLoopIdle == pc = "idle"

\* _handlechangedvalue: accept the change
HandleChangedValue(path, value) == TRUE

\* a callback without its "return True"
SignOfLifeReturnsNone == FALSE

\* what _signOfLife returns
SignOfLifeReturns == TRUE

InboundValues == {Num(7)}

Times == 1..MaxTime

NoOld == <<>>

NoReading == <<>>

NoLog == [lastUpdate |-> -1, power |-> None]

Callbacks == {"_update", "_signOfLife"}

(***************************************************************************)
(* _getShellyBaseUrl                                                       *)
(***************************************************************************)
Host == "shelly"

NoUrl == <<>>

\* the check of line 84 left out
AccessTypeAny(a) == TRUE

AccessTypeSupported(a) == a = "OnPremise"

\* "and" written for "or"
ShellyBaseUrlAnd(user, pass, host) ==
  IF user # "" /\ pass # ""
    THEN <<"http://", user, ":", pass, "@", host, "/">>
    ELSE <<"http://", host, "/">>

\* the two f-strings, as the parts they are put together from;
\* "if username or password" is true when either string is not empty
ShellyBaseUrl(user, pass, host) ==
  IF user # "" \/ pass # ""
    THEN <<"http://", user, ":", pass, "@", host, "/">>
    ELSE <<"http://", host, "/">>

(***************************************************************************)
(* The service classes                                                     *)
(***************************************************************************)
\* the two classes main() chooses from
ConcreteVariants == {"A", "B"}

\* subclasses of DbusShellyBaseService that override one of the two methods
\* and inherit the other, which raises NotImplementedError
PartialVariants == {"OnlySerial", "OnlyData"}

ImplementsSerial(v) == v \in ConcreteVariants \cup {"OnlySerial"}

ImplementsData(v) == v \in ConcreteVariants \cup {"OnlyData"}

\* what the device may answer to the GET of _getShellySerial
SerialResponses ==
  {[kind |-> "none", data |-> NoBody], [kind |-> "badjson", data |-> NoBody],
   [kind |-> "json", data |-> NoBody],
   [kind |-> "json", data |-> [meters |-> <<>>]],
   [kind |-> "json", data |-> [mac |-> DeviceMac]]}

\* the exception _getShellyJson(...)["mac"] ends with, "none" if it returns
SerialError(resp) ==
  IF resp.kind = "none" THEN "NoResponse"
  ELSE IF resp.kind = "badjson" THEN "BadJson"
  ELSE IF DOMAIN resp.data = {} THEN "EmptyBody"
  ELSE IF "mac" \notin DOMAIN resp.data THEN "NoMac"
  ELSE "none"

SerialErrors == {"NoResponse", "BadJson", "EmptyBody", "NoMac"}

\* /Serial registered last
PathsBeforeSerialAll == Paths \ {"/Serial"}

\* the paths __init__ registers before it fetches the serial
PathsBeforeSerial == {"/Connected"}

\* dbus with the paths of S added at their initial values
AddPaths(d, S) ==
  [p \in DOMAIN d \cup S |-> IF p \in DOMAIN d THEN d[p] ELSE InitialValue(p)]

(***************************************************************************)
(* State after construction: main() has read the configuration, the        *)
(* service has registered its paths and both timers                        *)
(***************************************************************************)
Init ==
  /\ variant \in {"A", "B"}
  /\ phaseCfg \in PhaseNames
  /\ accessType = "OnPremise"
  /\ username = ""
  /\ password = ""
  /\ base_url = ShellyBaseUrl(username, password, Host)
  /\ service = TRUE
  /\ exc = "none"
  /\ logged = FALSE
  /\ dbus = [p \in Paths |-> InitialValue(p)]
  /\ lastUpdate = 0
  /\ timers = Callbacks
  /\ pc = "idle"
  /\ phase = 1
  /\ meter_data = NoBody
  /\ total_power = 0
  /\ total_energy = 0
  /\ reading = NoReading
  /\ old = NoOld
  /\ successes = 0
  /\ lastOutcome = "none"
  /\ lifeLog = NoLog
  /\ inbound = 0

\* the configuration and what construction has fixed
config == <<variant, phaseCfg, accessType, username, password, base_url, service, exc, logged>>

history == <<successes, lastOutcome>>

locals == <<phase, meter_data, total_power, total_energy, reading>>

ResetLocals ==
  /\ phase' = 1
  /\ meter_data' = NoBody
  /\ total_power' = 0
  /\ total_energy' = 0
  /\ reading' = NoReading

\* the 250 ms timer fires and the main loop calls _update
UpdateTick(limit) ==
  /\ MainLoopIdle
  /\ "_update" \in timers
  /\ successes < limit
  /\ pc' = "fetch"
  /\ old' = [dbus |-> dbus, lastUpdate |-> lastUpdate]
  /\ UNCHANGED <<config, dbus, lastUpdate, timers, locals, history, lifeLog, inbound>>

\* _getShellyData up to the loop: the GET and the two totals
Fetch ==
  /\ pc = "fetch"
  /\ IF ~ImplementsData(variant)
       THEN /\ pc' = "except"
            /\ UNCHANGED locals
       ELSE \E resp \in Responses(variant) :
              IF GetShellyJsonRaises(resp)
                THEN /\ pc' = "except"
                     /\ UNCHANGED locals
                ELSE /\ meter_data' = resp.data
                     /\ total_power' = 0
                     /\ total_energy' = 0
                     /\ phase' = 1
                     /\ pc' = "read"
                     /\ UNCHANGED reading
  /\ UNCHANGED <<config, dbus, lastUpdate, timers, old, history, lifeLog, inbound>>

\* one iteration of the loop up to the first write
ReadPhase ==
  /\ pc = "read"
  /\ IF ReadRaises(variant, phase, meter_data)
       THEN /\ pc' = "except"
            /\ UNCHANGED <<reading, total_power, total_energy>>
       ELSE LET r == PhaseReading(variant, Phases[phase], phaseCfg, meter_data) IN
            /\ reading' = r
            /\ total_power' = Accumulate(total_power, r.power)
            /\ total_energy' = Accumulate(total_energy, r.energy)
            /\ pc' = "voltage"
  /\ UNCHANGED <<config, dbus, lastUpdate, timers, phase, meter_data, old, history,
                 lifeLog, inbound>>

\* self._dbusservice[path] = value, then on to the next statement
Write(from, path, value, to) ==
  /\ pc = from
  /\ dbus' = [dbus EXCEPT ![path] = value]
  /\ pc' = to
  /\ UNCHANGED <<config, lastUpdate, timers, meter_data, total_power, total_energy,
                 reading, old, history, lifeLog, inbound>>

WriteVoltage ==
  /\ Write("voltage", VoltagePath[Phases[phase]], reading.voltage, "current")
  /\ UNCHANGED phase

WriteCurrent ==
  /\ Write("current", CurrentPath[Phases[phase]], reading.current, "power")
  /\ UNCHANGED phase

WritePower ==
  /\ Write("power", PowerPath[Phases[phase]], Num(reading.power), "energy")
  /\ UNCHANGED phase

WriteEnergy ==
  /\ Write("energy", EnergyPath[Phases[phase]], EnergyForward(variant, reading.energy),
           IF phase < Len(Phases) THEN "read" ELSE "totalPower")
  /\ phase' = IF phase < Len(Phases) THEN phase + 1 ELSE phase

WriteTotalPower ==
  /\ Write("totalPower", "/Ac/Power", Num(total_power), "totalEnergy")
  /\ UNCHANGED phase

\* the last write of _getShellyData; it returns to _update
WriteTotalEnergy ==
  /\ Write("totalEnergy", "/Ac/Energy/Forward", EnergyForward(variant, total_energy),
           "index")
  /\ UNCHANGED phase

\* the counter incremented before the totals are written
IncrementIndexBeforeTotals ==
  /\ Write("totalPower", "/UpdateIndex", NextUpdateIndex(dbus["/UpdateIndex"]),
           "totalEnergy")
  /\ UNCHANGED phase

IncrementIndex ==
  /\ Write("index", "/UpdateIndex", NextUpdateIndex(dbus["/UpdateIndex"]), "stamp")
  /\ UNCHANGED phase

\* self._lastUpdate = time.time(), then return
Stamp ==
  /\ pc = "stamp"
  /\ \E t \in Times : lastUpdate' = t
  /\ timers' = IF UpdateReturns(FALSE) THEN timers ELSE timers \ {"_update"}
  /\ successes' = successes + 1
  /\ lastOutcome' = "ok"
  /\ pc' = "idle"
  /\ old' = NoOld
  /\ ResetLocals
  /\ UNCHANGED <<config, dbus, lifeLog, inbound>>

\* the except clause, then return
Except ==
  /\ pc = "except"
  /\ dbus' = ExceptHandler(dbus)
  /\ timers' = IF UpdateReturns(TRUE) THEN timers ELSE timers \ {"_update"}
  /\ pc' = "idle"
  /\ old' = NoOld
  /\ ResetLocals
  /\ lastOutcome' = "failed"
  /\ UNCHANGED <<config, lastUpdate, successes, lifeLog, inbound>>

\* the sign-of-life timer fires
SignOfLife ==
  /\ MainLoopIdle
  /\ "_signOfLife" \in timers
  /\ lifeLog' = [lastUpdate |-> lastUpdate, power |-> dbus["/Ac/Power"]]
  /\ timers' = IF SignOfLifeReturns THEN timers ELSE timers \ {"_signOfLife"}
  /\ UNCHANGED <<config, dbus, lastUpdate, pc, locals, old, history, inbound>>

\* another bus participant sets a path; for a path registered writeable the
\* service asks _handlechangedvalue whether to take the value
InboundWrite ==
  /\ pc = "idle"
  /\ inbound < MaxInbound
  /\ \E path \in Paths, value \in InboundValues :
       dbus' = IF path \in WriteablePaths /\ HandleChangedValue(path, value)
                 THEN [dbus EXCEPT ![path] = value]
                 ELSE dbus
  /\ inbound' = inbound + 1
  /\ UNCHANGED <<config, lastUpdate, timers, pc, locals, old, history, lifeLog>>

(***************************************************************************)
(* Construction: main() builds the service, __init__ runs                  *)
(***************************************************************************)
built == <<dbus, lastUpdate, timers, locals, old, history, lifeLog, inbound>>

settings == <<variant, phaseCfg, accessType, username, password>>

\* self._base_url = self._getShellyBaseUrl()
GetBaseUrl ==
  /\ pc = "construct"
  /\ IF AccessTypeSupported(accessType)
       THEN /\ base_url' = ShellyBaseUrl(username, password, Host)
            /\ pc' = "service"
            /\ UNCHANGED exc
       ELSE /\ exc' = "AccessType"
            /\ pc' = "raised"
            /\ UNCHANGED base_url
  /\ UNCHANGED <<settings, service, logged, built>>

\* VeDbusService(...) and the add_path calls up to /Position
CreateService ==
  /\ pc = "service"
  /\ service' = TRUE
  /\ dbus' = AddPaths(dbus, PathsBeforeSerial)
  /\ pc' = "serial"
  /\ UNCHANGED <<settings, base_url, exc, logged, lastUpdate, timers, locals, old,
                 history, lifeLog, inbound>>

\* add_path('/Serial', self._getShellySerial())
FetchSerial ==
  /\ pc = "serial"
  /\ IF ~ImplementsSerial(variant)
       THEN /\ exc' = "NotImplemented"
            /\ pc' = "raised"
            /\ UNCHANGED dbus
       ELSE \E resp \in SerialResponses :
              IF SerialError(resp) # "none"
                THEN /\ exc' = SerialError(resp)
                     /\ pc' = "raised"
                     /\ UNCHANGED dbus
                ELSE /\ dbus' = [p \in DOMAIN dbus \cup {"/Serial"} |->
                                   IF p = "/Serial" THEN resp.data.mac ELSE dbus[p]]
                     /\ pc' = "register"
                     /\ UNCHANGED exc
  /\ UNCHANGED <<settings, base_url, service, logged, lastUpdate, timers, locals, old,
                 history, lifeLog, inbound>>

\* /UpdateIndex, /StatusCode, the paths main() handed over, self._lastUpdate
RegisterPaths ==
  /\ pc = "register"
  /\ dbus' = AddPaths(dbus, Paths)
  /\ lastUpdate' = 0
  /\ pc' = "timers"
  /\ UNCHANGED <<config, timers, locals, old, history, lifeLog, inbound>>

\* the two gobject.timeout_add calls
AddTimers ==
  /\ pc = "timers"
  /\ timers' = Callbacks
  /\ pc' = "mainloop"
  /\ UNCHANGED <<config, dbus, lastUpdate, locals, old, history, lifeLog, inbound>>

\* __init__ has returned: mainloop.run()
RunMainLoop ==
  /\ pc = "mainloop"
  /\ pc' = "idle"
  /\ UNCHANGED <<config, built>>

\* the except clause of main(): log, fall off the end of main(), exit
MainExcept ==
  /\ pc = "raised"
  /\ logged' = TRUE
  /\ pc' = "exited"
  /\ UNCHANGED <<settings, base_url, service, exc, built>>

Construction ==
  \/ GetBaseUrl
  \/ CreateService
  \/ FetchSerial
  \/ RegisterPaths
  \/ AddTimers
  \/ RunMainLoop
  \/ MainExcept

\* the statements of one update cycle after its start
CycleStep ==
  \/ Fetch
  \/ ReadPhase
  \/ WriteVoltage
  \/ WriteCurrent
  \/ WritePower
  \/ WriteEnergy
  \/ WriteTotalPower
  \/ WriteTotalEnergy
  \/ IncrementIndex
  \/ Stamp
  \/ Except

Next ==
  \/ UpdateTick(MaxCycles)
  \/ CycleStep
  \/ SignOfLife
  \/ InboundWrite

Spec == Init /\ [][Next]_vars

\* update cycles and sign-of-life reports, no other bus participant
NextCycles ==
  \/ UpdateTick(MaxRuns)
  \/ CycleStep
  \/ SignOfLife

SpecCycles == Init /\ [][NextCycles]_vars

\* update cycles alone, enough of them for /UpdateIndex to wrap
NextWrap ==
  \/ UpdateTick(WrapCycles)
  \/ CycleStep

SpecWrap == Init /\ [][NextWrap]_vars

\* a started cycle runs on: the blocking GET returns or raises
SpecFair == SpecCycles /\ WF_vars(CycleStep)

\* the process from the call of the service class on
Usernames == {"", "admin"}

Passwords == {"", "secret"}

AccessTypes == {"OnPremise", "Cloud"}

InitStartup ==
  /\ variant \in ConcreteVariants \cup PartialVariants
  /\ phaseCfg \in PhaseNames
  /\ accessType \in AccessTypes
  /\ username \in Usernames
  /\ password \in Passwords
  /\ base_url = NoUrl
  /\ service = FALSE
  /\ exc = "none"
  /\ logged = FALSE
  /\ dbus = <<>>
  /\ lastUpdate = 0
  /\ timers = {}
  /\ pc = "construct"
  /\ phase = 1
  /\ meter_data = NoBody
  /\ total_power = 0
  /\ total_energy = 0
  /\ reading = NoReading
  /\ old = NoOld
  /\ successes = 0
  /\ lastOutcome = "none"
  /\ lifeLog = NoLog
  /\ inbound = 0

NextStartup ==
  \/ Construction
  \/ UpdateTick(MaxCycles)
  \/ CycleStep
  \/ SignOfLife

SpecStartup == InitStartup /\ [][NextStartup]_vars

(***************************************************************************)
(* Positions and results the properties speak about                        *)
(***************************************************************************)
\* the positions between the first and the last write of _getShellyData
WritePositions == {"voltage", "current", "power", "energy", "totalPower", "totalEnergy"}

\* _getShellyData has returned and _update has not: every measurement path
\* of the cycle is written and meter_data is the snapshot it was written from
CycleWritten == pc \in {"index", "stamp"}

\* the snapshot of the cycle in flight, in the variant's own field names
SnapshotPower == IF variant = "A" THEN meter_data.meters[Input + 1].power ELSE meter_data.apower

SnapshotEnergy ==
  IF variant = "A" THEN meter_data.meters[Input + 1].total ELSE meter_data.aenergy.total

\* the measurement paths after a whole run of _getShellyData on meter_data md
Published(v, pvinverter_phase, md) ==
  LET r(ph) == PhaseReading(v, ph, pvinverter_phase, md)
      tp == Accumulate(Accumulate(Accumulate(0, r("L1").power), r("L2").power), r("L3").power)
      te == Accumulate(Accumulate(Accumulate(0, r("L1").energy), r("L2").energy), r("L3").energy)
  IN [p \in MeasurementPaths |->
        IF p = "/Ac/Power" THEN Num(tp)
        ELSE IF p = "/Ac/Energy/Forward" THEN EnergyForward(v, te)
        ELSE LET ph == CHOOSE q \in PhaseNames :
                         p \in {VoltagePath[q], CurrentPath[q], PowerPath[q], EnergyPath[q]}
             IN IF p = VoltagePath[ph] THEN r(ph).voltage
                ELSE IF p = CurrentPath[ph] THEN r(ph).current
                ELSE IF p = PowerPath[ph] THEN Num(r(ph).power)
                ELSE EnergyForward(v, r(ph).energy)]

(***************************************************************************)
(* C1: the step that ends a failed update cycle (the except clause, then   *)
(* return) leaves every published path, /UpdateIndex included, and the     *)
(* last-update timestamp at the value they had when the cycle started.     *)
(***************************************************************************)
C1_FailedCycleChangesNothing ==
  [][pc = "except" =>
       /\ \A p \in MeasurementPaths \cup {"/UpdateIndex"} : dbus'[p] = old.dbus[p]
       /\ lastUpdate' = old.lastUpdate]_vars

\* a cycle fails on a missing field after an earlier cycle published power
C1_Witness ==
  /\ pc = "except"
  /\ DOMAIN meter_data # {}
  /\ dbus["/Ac/Power"] # Num(0)
  /\ lastUpdate # 0

(***************************************************************************)
(* C2: the update timer stays registered whatever the outcome of a cycle,  *)
(* every started cycle returns to idle, and a cycle whose fetch delivered  *)
(* a complete body reaches the end of the try block with /UpdateIndex      *)
(* incremented, also right after a failed cycle.                           *)
(***************************************************************************)
GoodFetch == pc = "read" /\ phase = 1 /\ ~ReadRaises(variant, phase, meter_data)

FullCycleDone ==
  /\ pc = "stamp"
  /\ dbus["/UpdateIndex"] = (old.dbus["/UpdateIndex"] + 1) % IndexModulus
  /\ \A p \in MeasurementPaths : dbus[p] = Published(variant, phaseCfg, meter_data)[p]

C2_FailureNeverBlocks ==
  /\ []("_update" \in timers)
  /\ (pc # "idle") ~> (pc = "idle")
  /\ GoodFetch ~> FullCycleDone

\* a cycle succeeds right after a cycle that failed
C2_Witness == FullCycleDone /\ lastOutcome = "failed"

(***************************************************************************)
(* C5: /UpdateIndex starts at 0, stays in 0..255 and equals the number of  *)
(* successful cycles modulo 256 (one more between the increment and the    *)
(* return of that cycle); failed cycles do not count.                      *)
(***************************************************************************)
C5_IndexCountsSuccesses ==
  /\ dbus["/UpdateIndex"] \in 0..255
  /\ dbus["/UpdateIndex"] = (IF pc = "stamp" THEN successes + 1 ELSE successes) % 256

\* back at 0 after 256 successful cycles, the last cycle before having failed
C5_Witness ==
  /\ successes = 256
  /\ dbus["/UpdateIndex"] = 0
  /\ pc = "idle"
  /\ lastOutcome = "failed"

(***************************************************************************)
(* C3: once a cycle has written a snapshot whose readings are non-zero,    *)
(* the configured phase carries voltage, current, power and energy of the  *)
(* snapshot and the two other phases carry zeros.                          *)
(***************************************************************************)
SnapshotVoltage ==
  IF variant = "A" THEN Num(NominalVoltage) ELSE Num(meter_data.voltage)

SnapshotCurrent ==
  IF variant = "A" THEN Norm(SnapshotPower, NominalVoltage) ELSE Num(meter_data.current)

SnapshotKWh ==
  IF variant = "A" THEN Norm(SnapshotEnergy, 60000) ELSE Norm(SnapshotEnergy, 1000)

C3_OnlyActivePhaseCarriesReading ==
  (CycleWritten /\ SnapshotPower # 0 /\ SnapshotEnergy # 0) =>
    \A q \in PhaseNames :
      IF q = phaseCfg
        THEN /\ dbus[VoltagePath[q]] = SnapshotVoltage
             /\ dbus[CurrentPath[q]] = SnapshotCurrent
             /\ dbus[PowerPath[q]] = Num(SnapshotPower)
             /\ dbus[EnergyPath[q]] = SnapshotKWh
        ELSE /\ dbus[VoltagePath[q]] = Num(0)
             /\ dbus[CurrentPath[q]] = Num(0)
             /\ dbus[PowerPath[q]] = Num(0)
             /\ dbus[EnergyPath[q]] = Num(0)

(***************************************************************************)
(* C4: once a cycle has written a snapshot, /Ac/Power is the power of the  *)
(* snapshot and /Ac/Energy/Forward is its energy counter in kWh.           *)
(***************************************************************************)
C4_TotalsAreTheSnapshot ==
  CycleWritten =>
    /\ dbus["/Ac/Power"] = Num(SnapshotPower)
    /\ dbus["/Ac/Energy/Forward"] = SnapshotKWh

(***************************************************************************)
(* C6: once a cycle has written a snapshot, the energy of the configured   *)
(* phase is the device counter divided by 60000 for Variant A and divided  *)
(* by 1000 for Variant B.                                                  *)
(***************************************************************************)
C6_EnergyFactorPerVariant ==
  CycleWritten =>
    dbus[EnergyPath[phaseCfg]] =
      (IF variant = "A" THEN Norm(SnapshotEnergy, 60000) ELSE Norm(SnapshotEnergy, 1000))

\* Variant A has published total=6000 as 0.1 kWh
C6_Witness ==
  /\ CycleWritten
  /\ variant = "A"
  /\ SnapshotEnergy = 6000
  /\ dbus[EnergyPath[phaseCfg]] = <<1, 10>>

(***************************************************************************)
(* C7: an update cycle starts only when none is in flight, and the         *)
(* sign-of-life reporter logs only when none is in flight, so what it logs *)
(* is the timestamp and the /Ac/Power of the idle state it ran in.         *)
(***************************************************************************)
C7_RunToCompletion ==
  [][/\ (pc' = "fetch" /\ pc # "fetch") => pc = "idle"
     /\ lifeLog' # lifeLog =>
          /\ pc = "idle"
          /\ pc' = "idle"
          /\ lifeLog' = [lastUpdate |-> lastUpdate, power |-> dbus["/Ac/Power"]]]_vars

\* a cycle is between two writes and the reporter has reported the cycle before
C7_Witness ==
  /\ pc = "power"
  /\ phase = 2
  /\ lifeLog.lastUpdate > 0
  /\ lifeLog.power # Num(0)

(***************************************************************************)
(* C8: while a cycle is in flight the measurement paths are, as a whole,   *)
(* either what they were before the cycle or what the cycle leaves behind. *)
(***************************************************************************)
C8_NoPartlyWrittenModel ==
  (pc \in WritePositions \/ (pc = "read" /\ phase > 1)) =>
    \/ \A p \in MeasurementPaths : dbus[p] = old.dbus[p]
    \/ \A p \in MeasurementPaths : dbus[p] = Published(variant, phaseCfg, meter_data)[p]

(***************************************************************************)
(* C9: a measurement path changes value only in a write of an update       *)
(* cycle (original), or in such a write or when the service accepts an     *)
(* inbound write to that path (amended).                                   *)
(***************************************************************************)
ChangedPaths == {p \in MeasurementPaths : dbus'[p] # dbus[p]}

CycleWrites == pc \in WritePositions /\ ~ReadRaises(variant, phase, meter_data)

C9_OnlyUpdateCycle == [][ChangedPaths # {} => CycleWrites]_vars

C9_UpdateCycleOrInboundWrite ==
  [][ChangedPaths # {} =>
       \/ CycleWrites
       \/ /\ pc = "idle"
          /\ inbound' = inbound + 1
          /\ Cardinality(ChangedPaths) = 1
          /\ \A p \in ChangedPaths : dbus'[p] \in InboundValues]_vars

\* an inbound write has changed a measurement path and a failed cycle has left it
C9_Witness ==
  /\ inbound = 1
  /\ pc = "idle"
  /\ dbus["/Ac/L2/Power"] = Num(7)
  /\ lastOutcome = "failed"

(***************************************************************************)
(* C10: whenever no cycle is in flight, /Ac/Power is the sum of the three  *)
(* phase powers and /Ac/Energy/Forward the sum of the three phase          *)
(* energies, an unset value counting as zero.                              *)
(***************************************************************************)
Sum3(path) ==
  RAdd(RAdd(OrZero(dbus[path["L1"]]), OrZero(dbus[path["L2"]])), OrZero(dbus[path["L3"]]))

HasCredentials(url) == \E i \in DOMAIN url : url[i] = "@"

C11_CredentialsOnlyWhenBoth ==
  base_url # NoUrl => (HasCredentials(base_url) <=> (username # "" /\ password # ""))

C11_CredentialsWhenEither ==
  base_url # NoUrl =>
    IF username = "" /\ password = ""
      THEN base_url = <<"http://", Host, "/">>
      ELSE base_url = <<"http://", username, ":", password, "@", Host, "/">>

\* the service runs with a username and an empty password in its base URL
C11_Witness ==
  /\ pc = "idle"
  /\ base_url = <<"http://", "admin", ":", "", "@", Host, "/">>

(***************************************************************************)
(* C12: with an access mode other than OnPremise the bus service is never  *)
(* created, no path is registered, no timer is scheduled and no callback   *)
(* ever runs; construction ends with the error, main() logs it and the     *)
(* process has exited without entering the main loop.                      *)
(***************************************************************************)
C12_BadAccessModeIsFatal ==
  accessType # "OnPremise" =>
    /\ ~service
    /\ DOMAIN dbus = {}
    /\ timers = {}
    /\ base_url = NoUrl
    /\ lastOutcome = "none" /\ lifeLog = NoLog
    /\ pc \in {"construct", "raised", "exited"}
    /\ pc # "construct" => exc = "AccessType"
    /\ pc = "exited" => logged

\* the process has exited on an unsupported access mode
C12_Witness ==
  /\ accessType = "Cloud"
  /\ pc = "exited"
  /\ exc = "AccessType"
  /\ logged

(***************************************************************************)
(* C13: with a service class that leaves _getShellySerial or               *)
(* _getShellyData unimplemented, construction never completes and no       *)
(* update cycle is ever started.                                           *)
(***************************************************************************)
CyclePositions == {"fetch", "read", "index", "stamp", "except"} \cup WritePositions

C13_MissingMethodFailsConstruction ==
  (~ImplementsSerial(variant) \/ ~ImplementsData(variant)) =>
    pc \notin {"mainloop", "idle"} \cup CyclePositions

(***************************************************************************)
(* C14: a sign-of-life report changes no published path, not /UpdateIndex  *)
(* and not the last-update timestamp, and the reporter stays scheduled     *)
(* whatever the update cycles do.                                          *)
(***************************************************************************)
C14_SignOfLifeMutatesNothing ==
  /\ []("_signOfLife" \in timers)
  /\ [][lifeLog' # lifeLog =>
          /\ dbus' = dbus
          /\ lastUpdate' = lastUpdate
          /\ timers' = timers
          /\ pc' = pc]_vars

\* the reporter has reported and the only cycles so far have failed
C14_Witness ==
  /\ lifeLog = [lastUpdate |-> 0, power |-> Num(0)]
  /\ lastOutcome = "failed"
  /\ successes = 0
  /\ pc = "idle"

(***************************************************************************)
(* C15: /Connected is 1 and /StatusCode is 0 in every state of the running *)
(* service, whatever cycles succeed or fail and whatever other bus         *)
(* participants write; a failed cycle ends with /UpdateIndex at the value  *)
(* it had when the cycle started.                                          *)
(***************************************************************************)
C15_OnlyTheCounterStalls ==
  /\ [](dbus["/Connected"] = 1 /\ dbus["/StatusCode"] = 0)
  /\ [][pc = "except" =>
          /\ dbus'["/UpdateIndex"] = old.dbus["/UpdateIndex"]
          /\ dbus'["/Connected"] = 1]_vars

\* an outage from the start, and an inbound write that was refused
C15_Witness ==
  /\ pc = "idle"
  /\ lastOutcome = "failed"
  /\ inbound = 1
  /\ \A p \in Paths : dbus[p] = InitialValue(p)

(***************************************************************************)
(* C16: once a Variant-A cycle has written its measurement paths, the      *)
(* active phase's voltage is 230 and its current is the snapshot's power   *)
(* divided by 230, whatever the sign of the power: 460 W gives 2, 0 W      *)
(* gives 0, -230 W gives -1.                                               *)
(***************************************************************************)
C16_NominalVoltageAndDerivedCurrent ==
  (CycleWritten /\ variant = "A") =>
    /\ dbus[VoltagePath[phaseCfg]] = <<230, 1>>
    /\ dbus[CurrentPath[phaseCfg]] = Norm(SnapshotPower, 230)
    /\ SnapshotPower = 460 => dbus[CurrentPath[phaseCfg]] = <<2, 1>>
    /\ SnapshotPower = 0 => dbus[CurrentPath[phaseCfg]] = <<0, 1>>
    /\ SnapshotPower = -230 => dbus[CurrentPath[phaseCfg]] = <<-1, 1>>

C16_Witness ==
  /\ CycleWritten
  /\ variant = "A"
  /\ SnapshotPower = 460
  /\ dbus[VoltagePath[phaseCfg]] = <<230, 1>>
  /\ dbus[CurrentPath[phaseCfg]] = <<2, 1>>

(***************************************************************************)
(* C17: the step that changes /UpdateIndex is taken when every measurement *)
(* path already holds the value the cycle's snapshot gives it, and changes *)
(* none of them; the step that sets the last-update time is taken after    *)
(* /UpdateIndex was incremented and changes no path.                       *)
(***************************************************************************)
C17_IndexAfterMeasurementsStampAfterIndex ==
  [][/\ dbus'["/UpdateIndex"] # dbus["/UpdateIndex"] =>
          /\ pc = "index"
          /\ \A p \in MeasurementPaths :
               /\ dbus[p] = Published(variant, phaseCfg, meter_data)[p]
               /\ dbus'[p] = dbus[p]
          /\ lastUpdate' = lastUpdate
     /\ lastUpdate' # lastUpdate =>
          /\ pc = "stamp"
          /\ dbus["/UpdateIndex"] = (old.dbus["/UpdateIndex"] + 1) % 256
          /\ dbus' = dbus]_vars

\* a new counter value is visible and the measurements are those of its cycle
C17_Witness ==
  /\ pc = "stamp"
  /\ dbus["/UpdateIndex"] = 1
  /\ SnapshotPower # 0
  /\ \A p \in MeasurementPaths : dbus[p] = Published(variant, phaseCfg, meter_data)[p]

(***************************************************************************)
(* C18: once the serial fetch of the constructor has failed (no response,  *)
(* undecodable or empty body, no "mac" field), the program is in main()'s  *)
(* except clause or has exited: no measurement path is registered, no      *)
(* timer is scheduled, no update cycle and no sign-of-life report has run, *)
(* the serial fetch is not entered again, and the exit follows the log.    *)
(***************************************************************************)
C18_SerialFailureAbortsStartup ==
  /\ [](exc \in SerialErrors =>
          /\ pc \in {"raised", "exited"}
          /\ service
          /\ DOMAIN dbus \cap (MeasurementPaths \cup {"/Serial", "/UpdateIndex"}) = {}
          /\ timers = {}
          /\ successes = 0 /\ lastOutcome = "none" /\ lifeLog = NoLog
          /\ meter_data = NoBody
          /\ pc = "exited" => logged)
  /\ [][(exc \in SerialErrors) => (exc' = exc /\ pc' \in {"raised", "exited"})]_vars

\* the device did not answer the serial request and the process has exited
C18_Witness ==
  /\ exc = "NoResponse"
  /\ pc = "exited"
  /\ logged
  /\ service
  /\ "/Connected" \in DOMAIN dbus

====
